---- MODULE Spec2Model ----
(***************************************************************************)
(* Model of the authenticated request pipeline of the Movie Review App:    *)
(* the response interceptor of src/service/api.ts (token refresh, pending  *)
(* queue, replay), the default Authorization header and the token store    *)
(* of src/utils/storage.ts.                                                *)
(*                                                                         *)
(* JavaScript runs handlers to completion between suspension points, so    *)
(* each action is one run-to-completion segment of an async call chain:    *)
(* from the completion of the awaited I/O to the next await or the end.    *)
(***************************************************************************)
EXTENDS Integers, Sequences, FiniteSets, TLC

VARIABLES
    isRefreshing,   \* api.ts:56
    failedQueue,    \* api.ts:59, the requests whose {resolve, reject} is queued
    defaultAuth,    \* api.defaults.headers.common['Authorization']
    store,          \* AsyncStorage item 'user_tokens'
    pc,             \* position of each request's call chain
    retry,          \* originalRequest._retry
    auth,           \* Authorization header of the request as last sent
    client,         \* the axios instance the request was last sent with
    error,          \* the rejection the interceptor was called with
    storedTokens,   \* local of the refreshing chain, api.ts:106
    newAccessToken, \* local of the refreshing chain, api.ts:117
    refreshError,   \* local of the refreshing chain, api.ts:127
    outcome,        \* what the caller's promise settled with
    sends,          \* observation: times the request was put on the wire
    reply,          \* observation: status of the latest reply to the request
    refreshCalls,   \* observation: calls made to auth/token/refresh/
    cyc,            \* observation: refresh cycle in which the request took the 401 branch
    rel,            \* observation: refresh cycle that re-issued the request
    cohort,         \* observation: the requests in flight when the first refresh started
    cycles,         \* observation: log of the refresh cycles
    user,           \* AuthContext.tsx:34, whether a user is set
    tokens,         \* AuthContext.tsx:35
    isLoading,      \* AuthContext.tsx:36
    apc,            \* position of the AuthContext operation in progress
    authOps,        \* observation: login, register and logout calls made so far
    writes,         \* observation: the pairs handed to storage.setTokens
    lastCred,       \* observation: the latest setAuthToken / clearAuthToken call
    booted,         \* observation: what the store read of the mount effect gave
    loggedOut,      \* observation: logout() has returned and no sign-in has started since
    movies,         \* MovieContext.tsx:42, the pages the list is made of
    currentPage,    \* MovieContext.tsx:55
    hasNextPage,    \* MovieContext.tsx:56
    isListLoading,  \* MovieContext.tsx:47
    isFetchingMore, \* MovieContext.tsx:54
    listError,      \* MovieContext.tsx:51, whether the context's error is set
    fetches,        \* the getMovies calls in flight
    fetched         \* observation: getMovies calls made so far

vars == <<isRefreshing, failedQueue, defaultAuth, store, pc, retry, auth, client,
          error, storedTokens, newAccessToken, refreshError, outcome, sends,
          reply, refreshCalls, cyc, rel, cohort, cycles,
          user, tokens, isLoading, apc, authOps, writes, lastCred, booted, loggedOut,
          movies, currentPage, hasNextPage, isListLoading, isFetchingMore,
          listError, fetches, fetched>>

\* Number of requests the callers issue in one run.
NumReqs == 2

Reqs == 1..NumReqs

\* The call chains through api: the screens' requests, and call 0, the one
\* call the AuthContext operation in progress awaits (authService.ts:5-23).
Calls == 0..NumReqs

\* HTTP statuses a request can be answered with; 0 is a network error with no response.
Statuses == {200, 401, 500, 0}

\* The access strings a caller hands to setAuthToken.
AccessStrings == {"", "old", "fresh"}

\* Number of login, register and logout calls the user makes in one run.
MaxAuthOps == 1

\* Number of requests the screens issue in one run of the whole app.
ScreenReqs == 1

\* Number of pages of movies the server holds.
NumPages == 3

\* Number of getMovies calls made in one run.
MaxFetches == 4

\* The pair the server answers the n-th sign-in with.
SessionTokens(n) == [present |-> TRUE, access |-> "acc" \o ToString(n),
                     refresh |-> "ref" \o ToString(n)]

\* Longest run of clearAuthToken calls made in a row by the callers.
MaxClears == 3

\* Ways the refresh call can fail: network error, 401, another non-2xx.
RefreshFailures == {0, 401, 400}

\* The access value the refresh endpoint hands out on its n-th call: a fresh
\* one each time.
NewAccess(n) == "new" \o ToString(n)

----------------------------------------------------------------------------
(* Values *)

NoTokens == [present |-> FALSE, access |-> "", refresh |-> ""]

Tokens(a, r) == [present |-> TRUE, access |-> a, refresh |-> r]

NoHeader == [present |-> FALSE, scheme |-> "", token |-> ""]

Bearer(token) == [present |-> TRUE, scheme |-> "Bearer", token |-> token]

NoError == [status |-> 0, attempt |-> 0]

NoOutcome == [kind |-> "none", from |-> "none", status |-> 0, id |-> 0]

\* A response of attempt n of the request.
Response(n) == [kind |-> "response", from |-> "request", status |-> 200, id |-> n]

\* The rejection a caller receives for error e of its request: the status
\* answered (0: no response) and the attempt that was answered.
RequestError(e) == [kind |-> "error", from |-> "request", status |-> e.status, id |-> e.attempt]

\* The rejection of the n-th refresh call, failed with status s.
RefreshError(s, n) == [kind |-> "error", from |-> "refresh", status |-> s, id |-> n]

NoCycle == [leader |-> 0, calls |-> 0, result |-> "none", read |-> NoTokens,
            sent |-> "", access |-> "", err |-> NoOutcome, clears |-> 0,
            rfail |-> FALSE, wfail |-> FALSE, cfail |-> FALSE,
            enq |-> <<>>, released |-> <<>>]

\* The latest call that changed the default header.
NoCred == [op |-> "none", token |-> "", n |-> 0]

SetCred(token) == [op |-> "set", token |-> token, n |-> 0]

\* n counts the clearAuthToken calls made in a row.
ClearCred(prev) ==
    [op |-> "clear", token |-> "", n |-> IF prev.op = "clear" THEN prev.n + 1 ELSE 1]

Range(s) == {s[i] : i \in 1..Len(s)}

----------------------------------------------------------------------------
(* api.ts: credential attachment *)

\* Slip: the header is set to the scheme alone, not removed.
clearAuthTokenBlank == Bearer("")

\* clearAuthToken (api.ts:49-51)
clearAuthToken == NoHeader

\* Slip: the token is stored without its scheme.
setAuthTokenRaw(token) ==
    IF token # "" THEN [present |-> TRUE, scheme |-> "", token |-> token] ELSE NoHeader

\* setAuthToken (api.ts:37-43): a falsy token removes the header.
setAuthToken(token) == IF token # "" THEN Bearer(token) ELSE NoHeader

----------------------------------------------------------------------------
(* utils/storage.ts: the token store *)

\* Slip: only the access value of the stored item is overwritten.
setItemAccessOnly(item, value) == [item EXCEPT !.access = value.access]

\* storage.ts:25: AsyncStorage.setItem replaces the item under 'user_tokens'
\* with the serialised pair.
setItem(item, value) == value

\* Slip: the item is left in the store.
removeItemKept(item) == item

\* storage.ts:50
removeItem(item) == NoTokens

\* Slip: the store functions let an AsyncStorage error through.
StorageErrorRethrown == FALSE

\* storage.ts:26-28, 39-42, 51-53: an AsyncStorage error is caught and logged;
\* getTokens then returns null, setTokens and clearTokens return normally.
StorageErrorCaught == TRUE

\* The rejection of a store function that lets an AsyncStorage error through.
StorageError == [kind |-> "error", from |-> "storage", status |-> 0, id |-> 0]

----------------------------------------------------------------------------
(* api.ts: the decisions of the response interceptor *)

\* Response interceptors are registered on `api` only (api.ts:85); a request
\* sent with the bare `axios` import passes through none.
Intercepted(c) == c = "api"

\* Slip: the marker is not consulted.
TriggerIgnoringMarker(status, retried) == status = 401

\* api.ts:89
Trigger(status, retried) == status = 401 /\ ~retried

\* Slip: the flag is not consulted and every 401 starts a refresh.
ShouldEnqueueNever(flag) == FALSE

\* api.ts:90
ShouldEnqueue(flag) == flag

\* Slip: the refreshing request is not marked.
NotMarked == FALSE

\* api.ts:103
MarkRetried == TRUE

\* Slip: the queue is released as soon as the refresh call has answered.
ReleaseOnAnswer == "answered"

\* api.ts:120-124: processQueue is called after the await of
\* storage.setTokens and after setAuthToken
ReleasePoint == "stored"

\* Slip: the flag is not raised when the refresh starts.
FlagOnStartForgotten == FALSE

\* api.ts:104
FlagOnStart == TRUE

\* Slip: only !storedTokens is tested.
HasTokens(t) == t.present

\* api.ts:107: !storedTokens?.refresh is false
HasRefresh(t) == t.present /\ t.refresh # ""

\* Slip: the stored pair is not spread into the new one.
NewTokensAccessOnly(t, a) == [present |-> TRUE, access |-> a, refresh |-> ""]

\* api.ts:118: { ...storedTokens, access: newAccessToken }
NewTokens(t, a) == [t EXCEPT !.access = a]

\* Slip: the queued request is re-issued with api, as the refreshing one is.
QueuedReplayViaApi == "api"

\* api.ts:96: the queued request is re-issued with the bare axios import
QueuedReplayClient == "axios"

\* api.ts:126: the refreshing request is re-issued with api
LeaderReplayClient == "api"

\* Slip: the queue is released with the access value read from the store.
ReleasedStoredToken(t, a) == t.access

\* api.ts:124: the token handed to processQueue
ReleasedToken(t, a) == a

\* Slip: the early return leaves the flag raised.
FlagLeftRaised == TRUE

\* api.ts:108
FlagAfterMissingCredential == FALSE

\* api.ts:133-135
FlagAfterCycle == FALSE

\* Slip: the refresh call is made with the api instance.
RefreshViaApi == "api"

\* api.ts:113: the refresh call is made with the bare axios import
RefreshClient == "axios"

\* Slip: the refreshing request's caller gets the 401 of its own request.
LeaderRejectionOriginal(original, refreshErr) == original

\* api.ts:132
LeaderRejection(original, refreshErr) == refreshErr

\* Slip: the record is put at the front of the queue.
pushFront(queue, r) == <<r>> \o queue

\* api.ts:92: failedQueue.push({ resolve, reject })
push(queue, r) == Append(queue, r)

\* api.ts:68-74: processQueue settles the records with forEach, from the
\* first index on; the result is the order in which they are settled.
RECURSIVE forEach(_)
forEach(queue) ==
    IF queue = <<>> THEN <<>> ELSE <<Head(queue)>> \o forEach(Tail(queue))

\* api.ts:98-100: the queued chain passes the rejection on
QueuedRejection(err) == err

\* The requests whose pending record is in the queue.
Queued == Range(failedQueue)

\* The positions of a chain that holds the refreshing role (api.ts:104-135).
LeaderPcs == {"getTokens", "refreshing", "setTokens", "clearTokens"}

----------------------------------------------------------------------------
TypeOK ==
    /\ isRefreshing \in BOOLEAN
    /\ failedQueue \in Seq(Calls)
    /\ pc \in [Calls -> {"idle", "sent", "queued", "replay", "done", "trapped"}
                       \cup LeaderPcs]
    /\ retry \in [Calls -> BOOLEAN]
    /\ client \in [Calls -> {"api", "axios"}]
    /\ sends \in [Calls -> Nat]
    /\ refreshCalls \in Nat
    /\ cyc \in [Calls -> Nat]
    /\ user \in BOOLEAN
    /\ isLoading \in BOOLEAN
    /\ tokens.present \in BOOLEAN
    /\ apc \in {"boot", "bootProfile", "bootClear", "rest", "login", "loginStore",
               "register", "registerStore", "logout", "logoutClear"}
    /\ authOps \in Nat
    /\ lastCred.op \in {"none", "set", "clear"}

\* What the store holds when the app starts.
StoredAtStart == {NoTokens, Tokens("old", "r1"), Tokens("old", "")}

\* api.ts:56, 59: no request was made yet.
NothingInFlight ==
    /\ isRefreshing = FALSE
    /\ failedQueue = <<>>
    /\ pc = [r \in Calls |-> "idle"]
    /\ retry = [r \in Calls |-> FALSE]
    /\ auth = [r \in Calls |-> NoHeader]
    /\ client = [r \in Calls |-> "api"]
    /\ error = [r \in Calls |-> NoError]
    /\ storedTokens = [r \in Calls |-> NoTokens]
    /\ newAccessToken = [r \in Calls |-> ""]
    /\ refreshError = [r \in Calls |-> NoOutcome]
    /\ outcome = [r \in Calls |-> NoOutcome]
    /\ sends = [r \in Calls |-> 0]
    /\ reply = [r \in Calls |-> 0]
    /\ refreshCalls = 0
    /\ cyc = [r \in Calls |-> 0]
    /\ rel = [r \in Calls |-> 0]
    /\ cohort = {}
    /\ cycles = <<>>
    /\ authOps = 0
    /\ writes = {}
    /\ lastCred = NoCred
    /\ movies = <<>>
    /\ currentPage = 1
    /\ hasNextPage = TRUE
    /\ isListLoading = FALSE
    /\ isFetchingMore = FALSE
    /\ listError = FALSE
    /\ fetches = {}
    /\ fetched = 0

\* The state once the app is running: the session was restored or never
\* existed, and the default header was set from the stored pair
\* (AuthContext.tsx:45-48); a login answer without a refresh value is stored
\* as it came (AuthContext.tsx:69-73).
Init ==
    /\ store \in StoredAtStart
    /\ defaultAuth = IF store.present THEN setAuthToken(store.access) ELSE NoHeader
    /\ user = store.present
    /\ tokens = store
    /\ isLoading = FALSE
    /\ apc = "rest"
    /\ booted = IF store.present THEN "pair" ELSE "absent"
    /\ loggedOut = FALSE
    /\ NothingInFlight

\* The state at process start, before the mount effect of the AuthContext
\* has run (AuthContext.tsx:34-36, api.ts:25-30).
InitAuth ==
    /\ store \in StoredAtStart
    /\ defaultAuth = NoHeader
    /\ user = FALSE
    /\ tokens = NoTokens
    /\ isLoading = TRUE
    /\ apc = "boot"
    /\ booted = "pending"
    /\ loggedOut = FALSE
    /\ NothingInFlight

coordinator == <<isRefreshing, failedQueue>>
credentials == <<defaultAuth, store>>
locals == <<storedTokens, newAccessToken, refreshError>>
cycleLog == <<refreshCalls, cyc, rel, cohort, cycles>>
session == <<user, tokens, isLoading, apc, authOps, booted, loggedOut>>
movieList == <<movies, currentPage, hasNextPage, isListLoading, isFetchingMore,
               listError, fetches, fetched>>

\* A caller issues request r through api: the default header is merged in.
\* Requests are numbered in the order in which they are issued.
Issue(r) ==
    /\ pc[r] = "idle"
    /\ \A q \in Reqs : q < r => pc[q] # "idle"
    /\ pc' = [pc EXCEPT ![r] = "sent"]
    /\ auth' = [auth EXCEPT ![r] = defaultAuth]
    /\ client' = [client EXCEPT ![r] = "api"]
    /\ sends' = [sends EXCEPT ![r] = 1]
    /\ UNCHANGED <<coordinator, credentials, retry, error, locals, outcome, reply, cycleLog>>
    /\ UNCHANGED <<session, writes, lastCred, movieList>>

\* api.ts:86: a 2xx answer (first attempt or replay) goes to the caller.
ReceiveResponse(r) ==
    /\ pc[r] \in {"sent", "replay"}
    /\ reply' = [reply EXCEPT ![r] = 200]
    /\ outcome' = [outcome EXCEPT ![r] = Response(sends[r])]
    /\ pc' = [pc EXCEPT ![r] = "done"]
    /\ UNCHANGED <<coordinator, credentials, retry, auth, client, error, locals, sends, cycleLog>>
    /\ UNCHANGED <<session, writes, lastCred, movieList>>

\* api.ts:138 (or no interceptor at all, for the bare axios replay): the
\* rejection goes to the caller as it is.
ReceiveError(r, s) ==
    /\ pc[r] \in {"sent", "replay"}
    /\ s # 200
    /\ ~(Intercepted(client[r]) /\ Trigger(s, retry[r]))
    /\ reply' = [reply EXCEPT ![r] = s]
    /\ outcome' = [outcome EXCEPT ![r] =
           IF Intercepted(client[r])
           THEN RequestError([status |-> s, attempt |-> sends[r]])
           ELSE QueuedRejection(RequestError([status |-> s, attempt |-> sends[r]]))]
    /\ pc' = [pc EXCEPT ![r] = "done"]
    /\ UNCHANGED <<coordinator, credentials, retry, auth, client, error, locals, sends, cycleLog>>
    /\ UNCHANGED <<session, writes, lastCred, movieList>>

\* api.ts:89-101: 401 while a refresh is in flight; the record is queued and
\* the chain suspends on its promise.
Enqueue(r) ==
    /\ pc[r] \in {"sent", "replay"}
    /\ Intercepted(client[r]) /\ Trigger(401, retry[r])
    /\ ShouldEnqueue(isRefreshing)
    /\ reply' = [reply EXCEPT ![r] = 401]
    /\ failedQueue' = push(failedQueue, r)
    /\ pc' = [pc EXCEPT ![r] = "queued"]
    /\ cyc' = [cyc EXCEPT ![r] = Len(cycles)]
    /\ cycles' = [cycles EXCEPT ![Len(cycles)].enq = Append(@, r)]
    /\ UNCHANGED <<isRefreshing, credentials, retry, auth, client, error, locals,
                   outcome, sends, refreshCalls, rel, cohort>>
    /\ UNCHANGED <<session, writes, lastCred, movieList>>

\* api.ts:89, 103-106: 401 with no refresh in flight; the chain takes the
\* refreshing role and suspends on storage.getTokens().
StartRefresh(r) ==
    /\ pc[r] \in {"sent", "replay"}
    /\ Intercepted(client[r]) /\ Trigger(401, retry[r])
    /\ ~ShouldEnqueue(isRefreshing)
    /\ reply' = [reply EXCEPT ![r] = 401]
    /\ error' = [error EXCEPT ![r] = [status |-> 401, attempt |-> sends[r]]]
    /\ retry' = [retry EXCEPT ![r] = MarkRetried]
    /\ isRefreshing' = FlagOnStart
    /\ pc' = [pc EXCEPT ![r] = "getTokens"]
    /\ cycles' = IF isRefreshing THEN cycles
                 ELSE Append(cycles, [NoCycle EXCEPT !.leader = r, !.result = "running"])
    /\ cyc' = [cyc EXCEPT ![r] = Len(cycles')]
    /\ cohort' = IF cycles = <<>>
                 THEN {q \in Reqs : pc[q] = "sent" /\ auth[q] = auth[r]}
                 ELSE cohort
    /\ UNCHANGED <<failedQueue, credentials, auth, client, locals, outcome, sends,
                   refreshCalls, rel>>
    /\ UNCHANGED <<session, writes, lastCred, movieList>>

\* api.ts:106-110: storage.getTokens() yielded no refresh value.
MissingCredentialOn(r, read, failed) ==
    /\ isRefreshing' = FlagAfterMissingCredential
    /\ outcome' = [outcome EXCEPT ![r] = RequestError(error[r])]
    /\ pc' = [pc EXCEPT ![r] = "done"]
    /\ cycles' = [cycles EXCEPT ![cyc[r]].result = "nocred", ![cyc[r]].read = read,
                                ![cyc[r]].rfail = failed]
    /\ UNCHANGED <<failedQueue, credentials, retry, auth, client, error, locals,
                   sends, reply, refreshCalls, cyc, rel, cohort>>
    /\ UNCHANGED <<session, writes, lastCred, movieList>>

MissingCredential(r) ==
    /\ pc[r] = "getTokens"
    /\ ~HasRefresh(store)
    /\ MissingCredentialOn(r, store, FALSE)

\* api.ts:106-116: storage.getTokens() yielded a refresh value; the refresh
\* call is made with the bare axios import and the chain suspends on it.
CallRefresh(r) ==
    /\ pc[r] = "getTokens"
    /\ HasRefresh(store)
    /\ storedTokens' = [storedTokens EXCEPT ![r] = store]
    /\ refreshCalls' = refreshCalls + 1
    /\ pc' = [pc EXCEPT ![r] = "refreshing"]
    /\ cycles' = [cycles EXCEPT ![cyc[r]].calls = @ + 1, ![cyc[r]].read = store,
                                ![cyc[r]].sent = store.refresh]
    /\ UNCHANGED <<coordinator, credentials, retry, auth, client, error,
                   newAccessToken, refreshError, outcome, sends, reply, cyc, rel, cohort>>
    /\ UNCHANGED <<session, writes, lastCred, movieList>>

\* api.ts:113-120: the refresh call answered { access }; the chain suspends
\* on storage.setTokens(newTokens).
RefreshSucceeded(r) ==
    /\ pc[r] = "refreshing"
    /\ newAccessToken' = [newAccessToken EXCEPT ![r] = NewAccess(refreshCalls)]
    /\ cycles' = [cycles EXCEPT ![cyc[r]].access = NewAccess(refreshCalls)]
    /\ IF ReleasePoint = "answered"
       THEN \* were processQueue called before the await, the pending
            \* records would be resolved and re-issued here
            /\ pc' = [q \in Calls |-> IF q = r THEN "setTokens"
                                     ELSE IF q \in Queued THEN "replay" ELSE pc[q]]
            /\ auth' = [q \in Calls |-> IF q \in Queued
                                       THEN Bearer(NewAccess(refreshCalls)) ELSE auth[q]]
            /\ client' = [q \in Calls |-> IF q \in Queued THEN QueuedReplayClient
                                         ELSE client[q]]
            /\ sends' = [q \in Calls |-> IF q \in Queued THEN sends[q] + 1 ELSE sends[q]]
            /\ rel' = [q \in Calls |-> IF q \in Queued THEN cyc[r] ELSE rel[q]]
            /\ failedQueue' = <<>>
            /\ UNCHANGED isRefreshing
       ELSE /\ pc' = [pc EXCEPT ![r] = "setTokens"]
            /\ UNCHANGED <<coordinator, auth, client, sends, rel>>
    /\ UNCHANGED <<credentials, retry, error, storedTokens,
                   refreshError, outcome, reply, refreshCalls, cyc, cohort>>
    /\ UNCHANGED <<session, writes, lastCred, movieList>>

\* api.ts:120-126, 133-135 with processQueue (67-76) and the continuation of
\* every queued chain (94-97): the pair is stored, the header set, every
\* pending record resolved and re-issued, the refreshing request re-issued,
\* and the flag reset as the async function returns.
SetTokensResolved(r, stored) ==
    /\ store' = IF stored
                THEN setItem(store, NewTokens(storedTokens[r], newAccessToken[r]))
                ELSE store
    /\ defaultAuth' = setAuthToken(newAccessToken[r])
    /\ auth' = [q \in Calls |->
                   IF q = r THEN Bearer(newAccessToken[r])
                   ELSE IF q \in Queued
                        THEN Bearer(ReleasedToken(storedTokens[r], newAccessToken[r]))
                        ELSE auth[q]]
    /\ client' = [q \in Calls |-> IF q = r THEN LeaderReplayClient
                                 ELSE IF q \in Queued THEN QueuedReplayClient
                                 ELSE client[q]]
    /\ sends' = [q \in Calls |-> IF q = r \/ q \in Queued THEN sends[q] + 1 ELSE sends[q]]
    /\ pc' = [q \in Calls |-> IF q = r \/ q \in Queued THEN "replay" ELSE pc[q]]
    /\ failedQueue' = <<>>
    /\ isRefreshing' = FlagAfterCycle
    /\ storedTokens' = [storedTokens EXCEPT ![r] = NoTokens]
    /\ newAccessToken' = [newAccessToken EXCEPT ![r] = ""]
    /\ cycles' = [cycles EXCEPT ![cyc[r]].result = "ok", ![cyc[r]].wfail = ~stored,
                                ![cyc[r]].released = @ \o forEach(failedQueue)]
    /\ rel' = [q \in Calls |-> IF q = r \/ q \in Queued THEN cyc[r] ELSE rel[q]]
    /\ writes' = writes \cup {NewTokens(storedTokens[r], newAccessToken[r])}
    /\ lastCred' = SetCred(newAccessToken[r])
    /\ UNCHANGED <<retry, error, refreshError, outcome, reply, refreshCalls, cyc, cohort>>
    /\ UNCHANGED <<session, movieList>>

SetTokensDone(r) ==
    /\ pc[r] = "setTokens"
    /\ SetTokensResolved(r, TRUE)

\* api.ts:127-130 with processQueue (67-76) and the continuation of every
\* queued chain (98-100): the refresh call failed with status s; every pending
\* record is rejected and the chain suspends on storage.clearTokens().
RefreshFailed(r, s) ==
    /\ pc[r] = "refreshing"
    /\ cycles' = [cycles EXCEPT ![cyc[r]].err = RefreshError(s, refreshCalls),
                                ![cyc[r]].released = @ \o forEach(failedQueue)]
    /\ IF Intercepted(RefreshClient) /\ Trigger(s, FALSE)
       THEN \* api.ts:89-101: were the refresh call made with api, its 401
            \* would take the unauthorized branch while the flag is raised,
            \* and the refreshing chain would wait on a pending record.
            /\ pc' = [pc EXCEPT ![r] = "trapped"]
            /\ UNCHANGED <<refreshError, outcome, failedQueue>>
       ELSE /\ refreshError' = [refreshError EXCEPT ![r] = RefreshError(s, refreshCalls)]
            /\ outcome' = [q \in Calls |-> IF q \in Queued
                                  THEN QueuedRejection(RefreshError(s, refreshCalls))
                                  ELSE outcome[q]]
            /\ pc' = [q \in Calls |-> IF q = r THEN "clearTokens"
                                     ELSE IF q \in Queued THEN "done" ELSE pc[q]]
            /\ failedQueue' = <<>>
    /\ UNCHANGED <<isRefreshing, credentials, retry, auth, client, error, storedTokens,
                   newAccessToken, sends, reply, refreshCalls, cyc, rel, cohort>>
    /\ UNCHANGED <<session, writes, lastCred, movieList>>

\* api.ts:130-135: the store is cleared, the header removed, the refresh
\* error goes to the caller and the flag is reset.
ClearTokensResolved(r, cleared) ==
    /\ store' = IF cleared THEN removeItem(store) ELSE store
    /\ defaultAuth' = clearAuthToken
    /\ outcome' = [outcome EXCEPT ![r] =
                      LeaderRejection(RequestError(error[r]), refreshError[r])]
    /\ pc' = [pc EXCEPT ![r] = "done"]
    /\ isRefreshing' = FlagAfterCycle
    /\ storedTokens' = [storedTokens EXCEPT ![r] = NoTokens]
    /\ refreshError' = [refreshError EXCEPT ![r] = NoOutcome]
    /\ cycles' = [cycles EXCEPT ![cyc[r]].result = "fail", ![cyc[r]].clears = @ + 1,
                                ![cyc[r]].cfail = ~cleared]
    /\ lastCred' = ClearCred(lastCred)
    /\ UNCHANGED <<failedQueue, retry, auth, client, error, newAccessToken,
                   sends, reply, refreshCalls, cyc, rel, cohort>>
    /\ UNCHANGED <<session, writes, movieList>>

ClearTokensDone(r) ==
    /\ pc[r] = "clearTokens"
    /\ ClearTokensResolved(r, TRUE)

Next ==
    \/ \E r \in Reqs : Issue(r)
    \/ \E r \in Reqs : ReceiveResponse(r)
    \/ \E r \in Reqs, s \in Statuses : ReceiveError(r, s)
    \/ \E r \in Reqs : Enqueue(r)
    \/ \E r \in Reqs : StartRefresh(r)
    \/ \E r \in Reqs : MissingCredential(r)
    \/ \E r \in Reqs : CallRefresh(r)
    \/ \E r \in Reqs : RefreshSucceeded(r)
    \/ \E r \in Reqs : SetTokensDone(r)
    \/ \E r \in Reqs, s \in RefreshFailures : RefreshFailed(r, s)
    \/ \E r \in Reqs : ClearTokensDone(r)

Spec == Init /\ [][Next]_vars

\* Every network call and every store operation completes; which requests
\* the callers issue, and what the server answers, is left open.  A chain
\* waits for one thing at a time, so one condition per chain covers each of
\* its awaits.
Completion(r) ==
    \/ ReceiveResponse(r)
    \/ \E s \in Statuses : ReceiveError(r, s)
    \/ Enqueue(r)
    \/ StartRefresh(r)
    \/ MissingCredential(r)
    \/ CallRefresh(r)
    \/ RefreshSucceeded(r)
    \/ \E s \in RefreshFailures : RefreshFailed(r, s)
    \/ SetTokensDone(r)
    \/ ClearTokensDone(r)

FairSpec == Spec /\ \A r \in Reqs : WF_vars(Completion(r))

----------------------------------------------------------------------------
(* The token store failing: AsyncStorage rejects an operation *)

\* Were a store function to let the AsyncStorage error through, the await in
\* the interceptor would throw and the chain end with that error.
StorageThrow(r) ==
    /\ pc' = [pc EXCEPT ![r] = "done"]
    /\ outcome' = [outcome EXCEPT ![r] = StorageError]
    /\ cycles' = [cycles EXCEPT ![cyc[r]].result = "threw"]
    /\ UNCHANGED <<coordinator, credentials, retry, auth, client, error, locals,
                   sends, reply, refreshCalls, cyc, rel, cohort>>
    /\ UNCHANGED <<session, writes, lastCred, movieList>>

\* storage.ts:35-43 and api.ts:106-110: AsyncStorage.getItem rejects;
\* getTokens returns null.
GetTokensFailed(r) ==
    /\ pc[r] = "getTokens"
    /\ IF StorageErrorCaught
       THEN MissingCredentialOn(r, NoTokens, TRUE)
       ELSE StorageThrow(r)

\* storage.ts:23-29 and api.ts:120-126: AsyncStorage.setItem rejects;
\* setTokens returns and the chain goes on.
SetTokensFailed(r) ==
    /\ pc[r] = "setTokens"
    /\ IF StorageErrorCaught
       THEN SetTokensResolved(r, FALSE)
       ELSE StorageThrow(r)

\* storage.ts:48-54 and api.ts:130-135: AsyncStorage.removeItem rejects;
\* clearTokens returns and the chain goes on.
ClearTokensFailed(r) ==
    /\ pc[r] = "clearTokens"
    /\ IF StorageErrorCaught
       THEN ClearTokensResolved(r, FALSE)
       ELSE StorageThrow(r)

FaultNext ==
    \/ Next
    \/ \E r \in Reqs : GetTokensFailed(r)
    \/ \E r \in Reqs : SetTokensFailed(r)
    \/ \E r \in Reqs : ClearTokensFailed(r)

FaultSpec == Init /\ [][FaultNext]_vars

----------------------------------------------------------------------------
(* The exported header functions called directly *)

\* A caller (AuthContext.tsx:48, 72, 86) calls setAuthToken(token).
CallSetAuthToken(token) ==
    /\ defaultAuth' = setAuthToken(token)
    /\ lastCred' = SetCred(token)
    /\ UNCHANGED <<coordinator, store, pc, retry, auth, client, error, locals,
                   outcome, sends, reply, cycleLog, session, writes, movieList>>

\* A caller (AuthContext.tsx:106) calls clearAuthToken().
CallClearAuthToken ==
    /\ lastCred.n < MaxClears
    /\ defaultAuth' = clearAuthToken
    /\ lastCred' = ClearCred(lastCred)
    /\ UNCHANGED <<coordinator, store, pc, retry, auth, client, error, locals,
                   outcome, sends, reply, cycleLog, session, writes, movieList>>

HeaderNext ==
    \/ \E token \in AccessStrings : CallSetAuthToken(token)
    \/ CallClearAuthToken
    \/ \E r \in Reqs : Issue(r)
    \/ \E r \in Reqs : ReceiveResponse(r)

HeaderSpec == Init /\ [][HeaderNext]_vars

----------------------------------------------------------------------------
(* context/AuthContext.tsx and App.tsx: the session *)

\* Slip: the navigators are chosen from the user alone.
AppContentNoGate(u, loading) == IF u THEN "app" ELSE "auth"

\* App.tsx:33-42: what AppContent renders.
AppContent(u, loading) == IF loading THEN "loading" ELSE IF u THEN "app" ELSE "auth"

\* Slip: the session is restored whatever the read gave.
RestoreAlways(t) == TRUE

\* AuthContext.tsx:46: if (storedTokens)
Restorable(t) == t.present

SignIns == {"login", "register"}

\* The positions at which the mount effect has not finished.
BootPcs == {"boot", "bootProfile", "bootClear"}

\* authService.ts:5-23: the operation makes its one call through api, with
\* a new request config; the default header is merged in.
AuthCall(header) ==
    /\ pc[0] \in {"idle", "done"}
    /\ pc' = [pc EXCEPT ![0] = "sent"]
    /\ retry' = [retry EXCEPT ![0] = FALSE]
    /\ auth' = [auth EXCEPT ![0] = header]
    /\ client' = [client EXCEPT ![0] = "api"]
    /\ error' = [error EXCEPT ![0] = NoError]
    /\ outcome' = [outcome EXCEPT ![0] = NoOutcome]
    /\ sends' = [sends EXCEPT ![0] = 1]
    /\ reply' = [reply EXCEPT ![0] = 0]
    /\ cyc' = [cyc EXCEPT ![0] = 0]
    /\ rel' = [rel EXCEPT ![0] = 0]
    /\ UNCHANGED <<coordinator, locals, refreshCalls, cohort, cycles, movieList>>

NoCall == UNCHANGED <<coordinator, pc, retry, auth, client, error, locals, outcome,
                      sends, reply, cycleLog, movieList>>

\* The promise of the operation's call has settled: its continuation runs
\* before any other handler.
AuthPending == apc \in {"bootProfile", "logout"} \cup SignIns /\ pc[0] = "done"

\* AuthContext.tsx:44-50, 57: storage.getTokens() has answered with `read`.
\* With a stored pair the tokens and the header are set and the profile is
\* fetched.
BootReadOn(read, failed) ==
    /\ UNCHANGED loggedOut
    /\ booted' = IF failed THEN "failed" ELSE IF read.present THEN "pair" ELSE "absent"
    /\ IF Restorable(read)
       THEN /\ tokens' = read
            /\ defaultAuth' = setAuthToken(read.access)
            /\ lastCred' = SetCred(read.access)
            /\ AuthCall(setAuthToken(read.access))
            /\ apc' = "bootProfile"
            /\ UNCHANGED isLoading
       ELSE /\ isLoading' = FALSE
            /\ apc' = "rest"
            /\ NoCall
            /\ UNCHANGED <<tokens, defaultAuth, lastCred>>
    /\ UNCHANGED <<store, user, authOps, writes>>

BootRead ==
    /\ apc = "boot"
    /\ BootReadOn(store, FALSE)

\* storage.ts:35-43 and AuthContext.tsx:45-46: AsyncStorage.getItem rejects;
\* getTokens returns null.
BootReadFailed ==
    /\ apc = "boot"
    /\ IF StorageErrorCaught
       THEN BootReadOn(NoTokens, TRUE)
       ELSE \* the mount effect's promise rejects before setIsLoading(false)
            /\ apc' = "rest"
            /\ booted' = "failed"
            /\ UNCHANGED loggedOut
            /\ NoCall
            /\ UNCHANGED <<credentials, user, tokens, isLoading, authOps, writes, lastCred>>

\* AuthContext.tsx:50-51, 57: the profile was fetched.
BootProfileOk ==
    /\ apc = "bootProfile"
    /\ pc[0] = "done" /\ outcome[0].kind = "response"
    /\ user' = TRUE
    /\ isLoading' = FALSE
    /\ apc' = "rest"
    /\ NoCall
    /\ UNCHANGED <<credentials, tokens, authOps, writes, lastCred, booted, loggedOut>>

\* AuthContext.tsx:104-107: the client side of logout, up to the await of
\* storage.clearTokens().
LogoutCleanup(next) ==
    /\ user' = FALSE
    /\ tokens' = NoTokens
    /\ defaultAuth' = clearAuthToken
    /\ lastCred' = ClearCred(lastCred)
    /\ apc' = next
    /\ UNCHANGED <<store, isLoading, booted, loggedOut, authOps, writes>>

\* AuthContext.tsx:52-54, 96-107: the profile fetch failed.  logout() is
\* the function of the first render, whose tokens are null: the server is
\* not called.
BootProfileFailed ==
    /\ apc = "bootProfile"
    /\ pc[0] = "done" /\ outcome[0].kind = "error"
    /\ LogoutCleanup("bootClear")
    /\ NoCall

\* AuthContext.tsx:107, 57: storage.clearTokens() has answered.
BootClearDone ==
    /\ apc = "bootClear"
    /\ store' = removeItem(store)
    /\ isLoading' = FALSE
    /\ apc' = "rest"
    /\ NoCall
    /\ UNCHANGED <<defaultAuth, user, tokens, authOps, writes, lastCred, booted, loggedOut>>

\* AuthContext.tsx:68-69, 82-83: the user submits the login or the register
\* form, shown by the AuthNavigator.
SignInStart(kind) ==
    /\ apc = "rest"
    /\ AppContent(user, isLoading) = "auth"
    /\ authOps < MaxAuthOps
    /\ authOps' = authOps + 1
    /\ apc' = kind
    /\ AuthCall(defaultAuth)
    /\ loggedOut' = FALSE
    /\ UNCHANGED <<credentials, user, tokens, isLoading, booted, writes, lastCred>>

\* AuthContext.tsx:69-73, 83-87: the server answered { user, tokens }; the
\* chain suspends on storage.setTokens(tokens).
SignInAnswered(kind) ==
    /\ apc = kind
    /\ pc[0] = "done" /\ outcome[0].kind = "response"
    /\ user' = TRUE
    /\ tokens' = SessionTokens(authOps)
    /\ defaultAuth' = setAuthToken(SessionTokens(authOps).access)
    /\ lastCred' = SetCred(SessionTokens(authOps).access)
    /\ writes' = writes \cup {SessionTokens(authOps)}
    /\ apc' = IF kind = "login" THEN "loginStore" ELSE "registerStore"
    /\ NoCall
    /\ UNCHANGED <<store, isLoading, booted, loggedOut, authOps>>

\* AuthContext.tsx:69, 83: the call was rejected and login / register throws.
SignInRejected(kind) ==
    /\ apc = kind
    /\ pc[0] = "done" /\ outcome[0].kind = "error"
    /\ apc' = "rest"
    /\ NoCall
    /\ UNCHANGED <<credentials, user, tokens, isLoading, booted, loggedOut, authOps, writes, lastCred>>

\* AuthContext.tsx:73, 87: storage.setTokens(tokens) has answered.
SignInStored(kind) ==
    /\ apc = IF kind = "login" THEN "loginStore" ELSE "registerStore"
    /\ store' = setItem(store, SessionTokens(authOps))
    /\ apc' = "rest"
    /\ NoCall
    /\ UNCHANGED <<defaultAuth, user, tokens, isLoading, booted, loggedOut, authOps, writes, lastCred>>

\* AuthContext.tsx:96-107: the user confirms logout on the profile screen,
\* shown by the AppNavigator.  The server is called when the tokens of the
\* session hold a refresh value.
LogoutStart ==
    /\ apc = "rest"
    /\ AppContent(user, isLoading) = "app"
    /\ authOps < MaxAuthOps
    /\ authOps' = authOps + 1
    /\ IF HasRefresh(tokens)
       THEN /\ apc' = "logout"
            /\ AuthCall(defaultAuth)
            /\ UNCHANGED <<credentials, user, tokens, isLoading, booted, loggedOut, writes, lastCred>>
       ELSE /\ user' = FALSE
            /\ tokens' = NoTokens
            /\ defaultAuth' = clearAuthToken
            /\ lastCred' = ClearCred(lastCred)
            /\ apc' = "logoutClear"
            /\ NoCall
            /\ UNCHANGED <<store, isLoading, booted, loggedOut, writes>>

\* AuthContext.tsx:98-107: the server call succeeded or failed; either way
\* the client side is cleaned up.
LogoutAnswered ==
    /\ apc = "logout"
    /\ pc[0] = "done"
    /\ LogoutCleanup("logoutClear")
    /\ NoCall

\* AuthContext.tsx:107-108: storage.clearTokens() has answered and logout
\* returns.
LogoutClearDone ==
    /\ apc = "logoutClear"
    /\ store' = removeItem(store)
    /\ apc' = "rest"
    /\ NoCall
    /\ loggedOut' = TRUE
    /\ UNCHANGED <<defaultAuth, user, tokens, isLoading, booted, authOps, writes, lastCred>>

\* A screen of the AppNavigator issues a request (e.g. MovieListScreen).
ScreenIssue(r) ==
    /\ r <= ScreenReqs
    /\ AppContent(user, isLoading) = "app"
    /\ Issue(r)

AuthContinue ==
    \/ BootProfileOk
    \/ BootProfileFailed
    \/ \E kind \in SignIns : SignInAnswered(kind)
    \/ \E kind \in SignIns : SignInRejected(kind)
    \/ LogoutAnswered

AuthNext ==
    \/ AuthPending /\ AuthContinue
    \/ ~AuthPending /\ BootRead
    \/ ~AuthPending /\ BootClearDone
    \/ ~AuthPending /\ \E kind \in SignIns : SignInStart(kind)
    \/ ~AuthPending /\ \E kind \in SignIns : SignInStored(kind)
    \/ ~AuthPending /\ LogoutStart
    \/ ~AuthPending /\ LogoutClearDone
    \/ ~AuthPending /\ \E r \in Reqs : ScreenIssue(r)
    \/ ~AuthPending /\ \E r \in Calls : ReceiveResponse(r)
    \/ ~AuthPending /\ \E r \in Calls, s \in Statuses : ReceiveError(r, s)
    \/ ~AuthPending /\ \E r \in Calls : Enqueue(r)
    \/ ~AuthPending /\ \E r \in Calls : StartRefresh(r)
    \/ ~AuthPending /\ \E r \in Calls : MissingCredential(r)
    \/ ~AuthPending /\ \E r \in Calls : CallRefresh(r)
    \/ ~AuthPending /\ \E r \in Calls : RefreshSucceeded(r)
    \/ ~AuthPending /\ \E r \in Calls : SetTokensDone(r)
    \/ ~AuthPending /\ \E r \in Calls, s \in RefreshFailures : RefreshFailed(r, s)
    \/ ~AuthPending /\ \E r \in Calls : ClearTokensDone(r)

AuthSpec == InitAuth /\ [][AuthNext]_vars

\* The whole app with a store whose read at process start may fail.
AuthFaultNext ==
    \/ AuthNext
    \/ BootReadFailed

AuthFaultSpec == InitAuth /\ [][AuthFaultNext]_vars

----------------------------------------------------------------------------
(* Three call chains at once: the screens' requests and a profile update *)

\* AuthContext.tsx:117-119 and authService.ts:25-28: the profile screen
\* calls updateProfile, which makes its call through api.
UpdateProfileCall ==
    /\ pc[0] = "idle"
    /\ AuthCall(defaultAuth)
    /\ UNCHANGED <<credentials, session, writes, lastCred>>

QueueNext ==
    \/ UpdateProfileCall
    \/ \E r \in Reqs : Issue(r)
    \/ \E r \in Calls : ReceiveResponse(r)
    \/ \E r \in Calls, s \in Statuses : ReceiveError(r, s)
    \/ \E r \in Calls : Enqueue(r)
    \/ \E r \in Calls : StartRefresh(r)
    \/ \E r \in Calls : MissingCredential(r)
    \/ \E r \in Calls : CallRefresh(r)
    \/ \E r \in Calls : RefreshSucceeded(r)
    \/ \E r \in Calls : SetTokensDone(r)
    \/ \E r \in Calls, s \in RefreshFailures : RefreshFailed(r, s)
    \/ \E r \in Calls : ClearTokensDone(r)

QueueSpec == Init /\ [][QueueNext]_vars

\* The mount effect alone: the steps taken while it has not finished.  Each
\* of them is the completion of a store operation or of a network call.
BootNext == apc \in BootPcs /\ AuthNext

\* The whole app, with every store operation and network call of the mount
\* effect completing.
FairAuthSpec == AuthSpec /\ WF_vars(BootNext)

----------------------------------------------------------------------------
(* Properties of the refresh coordinator *)

NoLeader == \A r \in Reqs : pc[r] \notin LeaderPcs

CycleIds == 1..Len(cycles)

\* The requests that took the 401 branch during refresh cycle c.
Members(c) == {q \in Reqs : cyc[q] = c}

\* The refresh cycles led by a request of the first cohort that called the
\* refresh endpoint.
CohortCalls == {c \in CycleIds : cycles[c].leader \in cohort /\ cycles[c].calls > 0}

\* C1, as stated: when two or more requests that were in flight together
\* with the same credential have all received 401, whatever the timing of
\* their 401s, they caused exactly one refresh call (given that a refresh
\* value was stored, so that the first of them made one).
C1_SingleFlightAnyTiming ==
    ( /\ Cardinality(cohort) >= 2
      /\ \A q \in cohort : cyc[q] # 0
      /\ cycles[1].calls = 1 )
    => Cardinality(CohortCalls) = 1

\* C1, amended: the requests that take the 401 branch within one refresh
\* cycle (from the moment isRefreshing is raised until it is reset) cause at
\* most one refresh call, and exactly one once the store has yielded a
\* refresh value.
C1_SingleFlightWithinCycle ==
    \A c \in CycleIds :
        /\ cycles[c].calls <= 1
        /\ (cycles[c].read.present /\ cycles[c].read.refresh # "") => cycles[c].calls = 1

\* Two requests received 401 in the same cycle, the cycle ended, one call.
C1_Witness ==
    \E c \in CycleIds :
        /\ Cardinality(Members(c)) >= 2
        /\ cycles[c].result \in {"ok", "fail"}
        /\ cycles[c].calls = 1
        /\ \A q \in Members(c) : pc[q] = "done"

\* C2: at most one refresh call is outstanding and at most one call chain
\* holds the refreshing role.
C2_AtMostOneRefresher ==
    /\ Cardinality({r \in Reqs : pc[r] = "refreshing"}) <= 1
    /\ Cardinality({r \in Reqs : pc[r] \in LeaderPcs}) <= 1

\* A refresh call is outstanding while another request, having received 401,
\* waits in the queue.
C2_Witness ==
    \E a, b \in Reqs :
        /\ pc[a] = "refreshing"
        /\ pc[b] = "queued" /\ reply[b] = 401

\* C3, as stated: every request that entered the pending queue is
\* eventually released from it.
C3_QueuedEventuallyReleased ==
    \A r \in Reqs : (pc[r] = "queued") ~> (pc[r] # "queued")

\* C4, as stated: the queue is non-empty only while isRefreshing is true.
C4_IdleQueueEmpty == ~isRefreshing => failedQueue = <<>>

\* C5, as stated: once a cycle has ended in a refresh failure, every request
\* enqueued during it is rejected with that refresh error after one send,
\* and the store was cleared once.
C5_FailureFanOut ==
    \A c \in CycleIds :
        cycles[c].result = "fail" =>
            /\ cycles[c].clears = 1
            /\ \A q \in Members(c) \ {cycles[c].leader} :
                   /\ pc[q] = "done"
                   /\ outcome[q] = cycles[c].err
                   /\ sends[q] = 1

\* C6: after a successful refresh the refreshing request and every request
\* queued behind it is re-issued once with Bearer <new access>, and what the
\* replay yields is what the caller receives.
C6_ReplayCorrect ==
    /\ \A c \in CycleIds :
           cycles[c].result = "ok" => \A q \in Members(c) : rel[q] # 0
    /\ \A r \in Reqs :
           rel[r] # 0 =>
               /\ cycles[rel[r]].result = "ok"
               /\ sends[r] = 2
               /\ auth[r] = [present |-> TRUE, scheme |-> "Bearer",
                             token |-> cycles[rel[r]].access]
               /\ pc[r] \in {"replay", "done"}
               /\ pc[r] = "done" =>
                      outcome[r] = [kind |-> IF reply[r] = 200 THEN "response" ELSE "error",
                                    from |-> "request", status |-> reply[r], id |-> 2]

\* The refreshing request and a queued one were both re-issued by the same
\* cycle; one caller got the replay's response, the other the replay's error.
C6_Witness ==
    \E a, b \in Reqs :
        /\ rel[a] # 0 /\ rel[a] = rel[b]
        /\ cycles[rel[a]].leader = a /\ b # a
        /\ pc[a] = "done" /\ pc[b] = "done"
        /\ {outcome[a].kind, outcome[b].kind} = {"response", "error"}

\* C7: a request is sent at most twice, and a replay answered 401 ends the
\* request with that error: no second refresh, no second enqueue.
C7_OneShotRetry ==
    \A r \in Reqs :
        /\ sends[r] <= 2
        /\ (sends[r] = 2 /\ pc[r] # "replay" /\ reply[r] = 401) =>
               /\ pc[r] = "done"
               /\ outcome[r] = [kind |-> "error", from |-> "request",
                                status |-> 401, id |-> 2]

\* The replay of the refreshing request and the replay of a queued request
\* were both answered 401 and both callers hold that error.
C7_Witness ==
    \E a, b \in Reqs :
        /\ rel[a] # 0 /\ rel[a] = rel[b]
        /\ cycles[rel[a]].leader = a /\ b # a
        /\ pc[a] = "done" /\ pc[b] = "done"
        /\ reply[a] = 401 /\ reply[b] = 401

\* C8: when the store yields no refresh value, no refresh call is made and
\* the request is rejected with its original 401 error.
C8_NoRefreshCredential ==
    \A c \in CycleIds :
        /\ ~(cycles[c].read.present /\ cycles[c].read.refresh # "") => cycles[c].calls = 0
        /\ cycles[c].result = "nocred" =>
               /\ pc[cycles[c].leader] = "done"
               /\ outcome[cycles[c].leader] = [kind |-> "error", from |-> "request",
                                               status |-> 401, id |-> 1]

\* A cycle ended for want of a refresh value although a pair was stored.
C8_Witness ==
    \E c \in CycleIds :
        /\ cycles[c].result = "nocred"
        /\ cycles[c].read.present
        /\ pc[cycles[c].leader] = "done"
        /\ refreshCalls = 0

\* C9: whenever no chain holds the refreshing role isRefreshing is false, a
\* 401 on a fresh request then starts a refresh, and isRefreshing = true
\* leads to isRefreshing = false.
C9_FlagReset ==
    /\ [](NoLeader => ~isRefreshing)
    /\ [][\A r \in Reqs :
            (NoLeader /\ pc[r] = "sent" /\ pc'[r] \notin {"sent", "done"})
            => (pc'[r] = "getTokens" /\ isRefreshing')]_vars
    /\ (isRefreshing ~> ~isRefreshing)

\* A cycle has ended in success, a later 401 has started a second cycle,
\* that one has ended in failure, and the flag is down.
C9_Witness ==
    /\ ~isRefreshing
    /\ Len(cycles) = 2
    /\ cycles[1].result = "ok"
    /\ cycles[2].result = "fail"

\* C10: from the end of a successful cycle (until the next cycle starts) the
\* store holds the pair read at its start with the access value replaced by
\* the new one, the refresh call carried the stored refresh value, and the
\* default header is Bearer <new access>.
C10_StateAfterSuccess ==
    (cycles # <<>> /\ cycles[Len(cycles)].result = "ok") =>
        LET c == cycles[Len(cycles)] IN
        /\ store = [present |-> TRUE, access |-> c.access, refresh |-> c.read.refresh]
        /\ c.sent = c.read.refresh
        /\ c.access # c.read.access
        /\ defaultAuth = [present |-> TRUE, scheme |-> "Bearer", token |-> c.access]

\* A refresh that started with {old, r1} has succeeded with new1.
C10_Witness ==
    /\ cycles # <<>> /\ cycles[Len(cycles)].result = "ok"
    /\ cycles[Len(cycles)].read = [present |-> TRUE, access |-> "old", refresh |-> "r1"]
    /\ store = [present |-> TRUE, access |-> "new1", refresh |-> "r1"]

\* C11: once a refresh cycle has ended with the refresh call failed, and
\* until a later cycle, the store is empty, the default header is absent,
\* and the caller of the refreshing request was rejected with the refresh
\* error, not with the 401 of its request.
C11_StateAfterFailure ==
    \A c \in CycleIds :
        cycles[c].result = "fail" =>
            /\ pc[cycles[c].leader] = "done"
            /\ outcome[cycles[c].leader] = cycles[c].err
            /\ outcome[cycles[c].leader].from = "refresh"
            /\ c = Len(cycles) => (store = NoTokens /\ ~defaultAuth.present)

C11_Witness ==
    /\ cycles # <<>>
    /\ cycles[Len(cycles)].result = "fail"
    /\ cycles[Len(cycles)].read = Tokens("old", "r1")
    /\ store = NoTokens
    /\ \E q \in Reqs : q # cycles[Len(cycles)].leader /\ outcome[q].from = "refresh"

\* C12: the refresh call is not subject to the 401 handling: a cycle makes
\* at most one refresh call, exactly one if it reached the refresh step; a
\* refresh call that failed, with 401 or otherwise, was not made again and
\* did not take the unauthorized branch, its failure went to the catch path.
C12_RefreshOutsideRetry ==
    /\ \A r \in Reqs : pc[r] # "trapped"
    /\ refreshCalls = Cardinality({c \in CycleIds : cycles[c].calls = 1})
    /\ \A c \in CycleIds :
           /\ cycles[c].calls <= 1
           /\ cycles[c].result \in {"ok", "fail"} => cycles[c].calls = 1
           /\ cycles[c].err # NoOutcome =>
                  /\ cycles[c].calls = 1
                  /\ cycles[c].err.id = refreshCalls
                  /\ pc[cycles[c].leader] \in {"clearTokens", "done"}

C12_Witness ==
    \E c \in CycleIds :
        /\ cycles[c].err # NoOutcome
        /\ cycles[c].err.status = 401
        /\ cycles[c].result = "fail"
        /\ cycles[c].calls = 1
        /\ refreshCalls = 1

\* C16: a failure of the token store is never thrown to the refresh logic.
\* A read that failed is an absent credential: no refresh call, the original
\* 401 to the caller.  A write that failed changes nothing in the store and
\* the cycle still succeeds: header set, queue released, request re-issued.
\* A clear that failed changes nothing in the store and the failure path
\* still completes: header removed, refresh error to the caller.
C16_StoreFailuresSwallowed ==
    /\ \A r \in Reqs : outcome[r].from # "storage"
    /\ \A c \in CycleIds :
         LET L == cycles[c] IN
           /\ L.result # "threw"
           /\ L.rfail =>
                  /\ L.calls = 0
                  /\ L.result = "nocred"
                  /\ outcome[L.leader] = RequestError(error[L.leader])
                  /\ outcome[L.leader].status = 401
           /\ L.wfail =>
                  /\ L.result = "ok"
                  /\ rel[L.leader] = c
                  /\ sends[L.leader] = 2
                  /\ \A q \in Members(c) : rel[q] = c => auth[q] = Bearer(L.access)
                  /\ c = Len(cycles) =>
                         /\ store = L.read
                         /\ defaultAuth = Bearer(L.access)
                         /\ failedQueue = <<>>
                         /\ ~isRefreshing
           /\ L.cfail =>
                  /\ L.result = "fail"
                  /\ pc[L.leader] = "done"
                  /\ outcome[L.leader] = L.err
                  /\ c = Len(cycles) =>
                         /\ store = L.read
                         /\ ~defaultAuth.present
                         /\ ~isRefreshing

C16_Witness ==
    /\ Len(cycles) = 2
    /\ cycles[1].wfail /\ cycles[1].result = "ok"
    /\ cycles[2].cfail /\ cycles[2].result = "fail"
    /\ store = Tokens("old", "r1")

\* C17: every failure of the refresh call is handled the same way, whatever
\* its kind: the step that receives it rejects every pending record with it,
\* empties the queue and goes on to clear the store, leaving store, header
\* and flag as they are; and the cycle ends as a failed one.
C17_FailureStep ==
    \A r \in Reqs :
        (pc[r] = "refreshing" /\ cycles'[cyc[r]].err # NoOutcome) =>
            /\ cycles'[cyc[r]].err.status \in RefreshFailures
            /\ pc'[r] = "clearTokens"
            /\ refreshError'[r] = cycles'[cyc[r]].err
            /\ failedQueue' = <<>>
            /\ \A q \in Queued : pc'[q] = "done" /\ outcome'[q] = cycles'[cyc[r]].err
            /\ UNCHANGED <<isRefreshing, store, defaultAuth>>

C17_UniformFailure ==
    /\ [][C17_FailureStep]_vars
    /\ [](\A k \in RefreshFailures : \A c \in CycleIds :
            (cycles[c].err.status = k /\ cycles[c].err # NoOutcome
             /\ pc[cycles[c].leader] = "done") =>
                /\ cycles[c].result = "fail"
                /\ cycles[c].clears = 1
                /\ outcome[cycles[c].leader] = RefreshError(k, cycles[c].err.id))

C17_Witness ==
    \E c \in CycleIds :
        /\ cycles[c].err.status = 401
        /\ cycles[c].result = "fail"
        /\ \E q \in Members(c) : q # cycles[c].leader /\ outcome[q] = cycles[c].err

\* A request that goes on the wire for the first time carries the default
\* header of that moment.
IssuedWithDefault ==
    \A r \in Reqs : (pc[r] = "idle" /\ pc'[r] = "sent") => auth'[r] = defaultAuth

\* C18, as stated: for every access string, the empty one included, after
\* setAuthToken(access) the default header is 'Bearer ' followed by access.
C18_BearerForEveryString ==
    lastCred.op = "set" =>
        defaultAuth = [present |-> TRUE, scheme |-> "Bearer", token |-> lastCred.token]

\* C18, amended: after setAuthToken(access) with a non-empty access the
\* default header is 'Bearer ' followed by access; after setAuthToken("")
\* it is absent; and every request issued afterwards carries the default
\* header, until the next setAuthToken or clearAuthToken.
C18_BearerForNonEmptyString ==
    /\ [](lastCred.op = "set" =>
            IF lastCred.token # ""
            THEN defaultAuth = [present |-> TRUE, scheme |-> "Bearer",
                                token |-> lastCred.token]
            ELSE ~defaultAuth.present)
    /\ [][IssuedWithDefault]_vars

C18_Witness ==
    /\ lastCred = SetCred("fresh")
    /\ \E r \in Reqs : pc[r] = "sent" /\ auth[r] = Bearer("fresh")
    /\ \E r \in Reqs : pc[r] = "done" /\ ~auth[r].present

\* A clearAuthToken call that follows another changes nothing.
RepeatedClearIsNoOp ==
    (lastCred.op = "clear" /\ lastCred'.op = "clear" /\ lastCred'.n > lastCred.n) =>
        UNCHANGED <<defaultAuth, coordinator, store, pc, retry, auth, client, error,
                    locals, outcome, sends, reply, cycleLog, session, writes, movieList>>

\* C19: after clearAuthToken() the default header is absent, from whatever
\* state it is called and however many times in a row, and a repeated call
\* leaves the state as the first one made it.
C19_ClearIdempotent ==
    /\ [](lastCred.op = "clear" => defaultAuth = NoHeader)
    /\ [][RepeatedClearIsNoOp]_vars

C19_Witness ==
    /\ lastCred.op = "clear"
    /\ lastCred.n = 2
    /\ ~defaultAuth.present
    /\ \E r \in Reqs : pc[r] = "sent" /\ auth[r].present

----------------------------------------------------------------------------
(* Properties of the session *)

\* C13: the value the store holds, hence the value any read returns, is
\* absent or one whole pair handed to a single storage.setTokens call (by
\* login, register or a successful refresh) or present at start, under every
\* interleaving of login, register, logout and refresh.
C13_PairAtomicity ==
    /\ store \in {NoTokens} \cup StoredAtStart \cup writes
    /\ tokens \in {NoTokens} \cup StoredAtStart \cup writes
    /\ \A c \in CycleIds :
           /\ cycles[c].read \in {NoTokens} \cup StoredAtStart \cup writes
           /\ storedTokens[cycles[c].leader] \in {NoTokens} \cup StoredAtStart \cup writes

C13_Witness ==
    /\ store = SessionTokens(1)
    /\ Cardinality(writes) = 2
    /\ \E c \in CycleIds : cycles[c].result = "ok" /\ cycles[c].read = Tokens("old", "r1")

\* C14: when the mount effect has finished after a failed profile fetch,
\* whatever made it fail, and until the user signs in, the store is empty,
\* the default header is absent and user and tokens are null.
C14_BootstrapFailure ==
    (apc = "rest" /\ authOps = 0 /\ outcome[0].kind = "error") =>
        /\ store = NoTokens
        /\ ~defaultAuth.present
        /\ ~user
        /\ tokens = NoTokens
        /\ ~isLoading

C14_Witness ==
    /\ apc = "rest" /\ authOps = 0
    /\ outcome[0].kind = "error" /\ outcome[0].from = "request"
    /\ outcome[0].status = 500
    /\ store = NoTokens /\ ~isLoading
    /\ lastCred.op = "clear"

\* C15: isLoading is true from process start until the mount effect has
\* finished; the navigators are rendered only when isLoading is false, so
\* no screen request and no sign-in starts before; isLoading does not become
\* true again; and with every store operation and network call completing
\* isLoading becomes false.
C15_BlockingGate ==
    /\ [](apc \in BootPcs => isLoading)
    /\ [](AppContent(user, isLoading) \in {"app", "auth"} =>
             ~isLoading /\ apc \notin BootPcs)
    /\ [](apc \in BootPcs => authOps = 0 /\ \A r \in Reqs : pc[r] = "idle")
    /\ [][~isLoading => ~isLoading']_vars
    /\ (isLoading ~> ~isLoading)

C15_Witness ==
    /\ ~isLoading /\ user
    /\ authOps = 0
    /\ cycles # <<>> /\ cycles[1].leader = 0 /\ cycles[1].result = "ok"
    /\ \E r \in Reqs : pc[r] = "sent"

\* C20: when logout() returns, whether its server call succeeded, failed or
\* was not made, user and tokens are null, the default header is absent and
\* the store is empty.
C20_LogoutCleansUp ==
    [][(apc = "logoutClear" /\ apc' = "rest") =>
          /\ ~user'
          /\ tokens' = NoTokens
          /\ ~defaultAuth'.present
          /\ store' = NoTokens]_vars

\* C21: when the store is empty at process start, or its read fails, the
\* mount effect sets no header, makes no network request, leaves user and
\* tokens null and ends with isLoading false; this is the state until the
\* user signs in.
C21_BootstrapNoPair ==
    (booted \in {"absent", "failed"} /\ authOps = 0) =>
        /\ ~defaultAuth.present
        /\ lastCred = NoCred
        /\ \A r \in Calls : pc[r] = "idle" /\ sends[r] = 0
        /\ refreshCalls = 0
        /\ ~user
        /\ tokens = NoTokens
        /\ apc = "rest"
        /\ ~isLoading

C21_Witness ==
    /\ booted = "failed"
    /\ authOps = 0
    /\ store = Tokens("old", "r1")
    /\ ~isLoading

\* C22, as stated: every request that took the unauthorized branch and whose
\* chain is suspended, as the refreshing request or behind a refresh in
\* flight, has its retried marker set.
C22_MarkedBeforeSuspending ==
    \A r \in Reqs : pc[r] \in LeaderPcs \cup {"queued"} => retry[r]

\* C23: in a refresh cycle, no pending record is resolved and no replay is
\* issued while the write of the new pair has not completed and the header
\* is not updated; once a request was re-issued by a cycle, the pair of that
\* cycle was written, and the store and the default header hold the new
\* access value until a later cycle ends.
C23_SuccessOrdering ==
    \A c \in CycleIds :
        /\ cycles[c].result = "running" =>
               /\ \A q \in Reqs : rel[q] # c
               /\ sends[cycles[c].leader] = 1
        /\ \A q \in Reqs : rel[q] = c =>
               /\ cycles[c].result = "ok"
               /\ NewTokens(cycles[c].read, cycles[c].access) \in writes
               /\ auth[q] = Bearer(cycles[c].access)
               /\ (\A d \in CycleIds : d > c => cycles[d].result = "running") =>
                      /\ store = NewTokens(cycles[c].read, cycles[c].access)
                      /\ defaultAuth = Bearer(cycles[c].access)

C23_Witness ==
    /\ Len(cycles) = 1
    /\ \E q \in Reqs : q # cycles[1].leader /\ rel[q] = 1 /\ pc[q] = "replay"
    /\ pc[cycles[1].leader] = "replay"
    /\ store.access = cycles[1].access

\* C24, as stated: on every exit of a refresh cycle the flag is reset only
\* after the queue has been released (processQueue has run, or no record is
\* pending) and after the store and the header were updated for that cycle;
\* and while the flag is down nothing changes the queue, the store or the
\* header.
C24_ResetIsFinalStep ==
    /\ [][(isRefreshing /\ ~isRefreshing') =>
            LET L == cycles'[Len(cycles')] IN
              /\ L.result \in {"ok", "fail"} \/ failedQueue' = <<>>
              /\ L.result = "ok" =>
                     /\ store' = NewTokens(L.read, L.access)
                     /\ defaultAuth' = Bearer(L.access)
              /\ L.result = "fail" =>
                     /\ store' = NoTokens
                     /\ ~defaultAuth'.present]_vars
    /\ [][(~isRefreshing /\ ~isRefreshing') =>
            UNCHANGED <<failedQueue, store, defaultAuth>>]_vars

\* C25: a request answered through the interceptor enters the coordinator
\* only on a 401 with its marker unset.  A response goes to the caller as it
\* is; an error that is not a 401, or a 401 on a marked request, goes to the
\* caller as it is; and then the flag, the queue, the store and the header
\* are left unchanged and no refresh call is made.
C25_OnlyFresh401Enters ==
    [][\A r \in Reqs :
         (pc[r] \in {"sent", "replay"} /\ pc'[r] # pc[r] /\ Intercepted(client[r])) =>
            IF reply'[r] = 401 /\ ~retry[r]
            THEN pc'[r] \in {"queued", "getTokens"}
            ELSE /\ pc'[r] = "done"
                 /\ outcome'[r] = IF reply'[r] = 200
                                  THEN Response(sends[r])
                                  ELSE [kind |-> "error", from |-> "request",
                                        status |-> reply'[r], id |-> sends[r]]
                 /\ UNCHANGED <<isRefreshing, failedQueue, store, defaultAuth,
                                refreshCalls, cycles, retry>>]_vars

C25_Witness ==
    \E r \in Reqs :
        /\ pc[r] = "done" /\ client[r] = "api"
        /\ retry[r] /\ sends[r] = 2
        /\ reply[r] = 401
        /\ outcome[r] = RequestError([status |-> 401, attempt |-> 2])
        /\ \E q \in Reqs : q # r /\ outcome[q].status = 0 /\ outcome[q].kind = "error"
                             /\ outcome[q].from = "request"

\* C26: processQueue settles the pending records in the order in which they
\* were enqueued, every record present at that moment, all with the same
\* token or the same error, and leaves the queue empty.
C26_ReleaseStep ==
    LET c == Len(cycles) IN
    (cycles # <<>> /\ cycles'[c].released # cycles[c].released) =>
        /\ cycles'[c].released = failedQueue
        /\ failedQueue' = <<>>
        /\ \A i \in 1..Len(failedQueue) :
               IF cycles'[c].result = "ok"
               THEN /\ pc'[failedQueue[i]] = "replay"
                    /\ auth'[failedQueue[i]] = Bearer(cycles'[c].access)
               ELSE /\ pc'[failedQueue[i]] = "done"
                    /\ outcome'[failedQueue[i]] = cycles'[c].err

C26_FifoTotalRelease ==
    /\ [](\A c \in CycleIds :
            /\ Len(cycles[c].released) <= Len(cycles[c].enq)
            /\ cycles[c].released = SubSeq(cycles[c].enq, 1, Len(cycles[c].released))
            /\ cycles[c].result = "ok" => cycles[c].released = cycles[c].enq
            /\ (c = Len(cycles) /\ cycles[c].result = "running"
                /\ cycles[c].err = NoOutcome) =>
                   /\ Len(cycles[c].enq) <= Len(failedQueue)
                   /\ cycles[c].enq = SubSeq(failedQueue,
                                             Len(failedQueue) - Len(cycles[c].enq) + 1,
                                             Len(failedQueue)))
    /\ [][C26_ReleaseStep]_vars

C26_Witness ==
    \E c \in CycleIds :
        /\ cycles[c].result = "ok"
        /\ cycles[c].leader = 2
        /\ cycles[c].released = <<0, 1>>
        /\ pc[0] = "replay" /\ pc[1] = "replay"


\* C27: once logout() has returned, the store stays empty and the default
\* header stays absent until the next login or register starts, also when a
\* refresh call that was in flight during logout succeeds afterwards.
C27_NoResurrection ==
    loggedOut => store = NoTokens /\ ~defaultAuth.present


\* No request, refresh call, store operation, login, register, logout or
\* bootstrap is in progress.
Quiescent ==
    /\ apc = "rest"
    /\ ~isRefreshing
    /\ \A r \in Calls : pc[r] \in {"idle", "done"}

\* C28: in every quiescent state the default header is present exactly when
\* the store holds a pair, and then it is "Bearer " followed by the stored
\* access value.
C28_HeaderMatchesStore ==
    Quiescent =>
        /\ defaultAuth.present <=> store.present
        /\ store.present => defaultAuth = Bearer(store.access)


\* The refreshing request of a cycle that succeeded, while it is replayed.
LeaderInReplay(r) ==
    /\ pc[r] = "replay"
    /\ rel[r] \in CycleIds
    /\ cycles[rel[r]].leader = r
    /\ cycles[rel[r]].result = "ok"

\* The replay of the refreshing request r is answered with a failure.
C29_ReplayFailureStep ==
    \A r \in Reqs :
        (LeaderInReplay(r) /\ pc'[r] # pc[r] /\ reply'[r] # 200) =>
            /\ pc'[r] = "done"
            /\ outcome'[r] = RequestError([status |-> reply'[r], attempt |-> 2])
            /\ UNCHANGED <<store, defaultAuth, isRefreshing, failedQueue, cycles>>
            /\ \A q \in Reqs \ {r} : pc'[q] = pc[q] /\ outcome'[q] = outcome[q]
            /\ rel[r] = Len(cycles) =>
                   /\ store' = NewTokens(cycles[rel[r]].read, cycles[rel[r]].access)
                   /\ defaultAuth' = Bearer(cycles[rel[r]].access)

\* C29: when the refresh succeeded and the replay of the refreshing request
\* fails (401, another status or no response), the error of the replay goes
\* to the caller, the store keeps the new pair, the default header keeps the
\* new access value, no new cycle starts, and the queued requests of the
\* cycle are released for replay with the new token, not rejected.
C29_FailedReplayKeepsSession ==
    /\ [][C29_ReplayFailureStep]_vars
    /\ [](\A c \in CycleIds :
            cycles[c].result = "ok" =>
                /\ cycles[c].released = cycles[c].enq
                /\ \A i \in 1..Len(cycles[c].enq) :
                       LET q == cycles[c].enq[i] IN
                       /\ rel[q] = c
                       /\ sends[q] = 2
                       /\ pc[q] \in {"replay", "done"}
                       /\ auth[q] = Bearer(cycles[c].access)
                       /\ outcome[q].from # "refresh")

C29_Witness ==
    \E r \in Reqs, q \in Reqs :
        /\ q # r
        /\ cycles # <<>> /\ cycles[Len(cycles)].leader = r
        /\ cycles[Len(cycles)].result = "ok"
        /\ cycles[Len(cycles)].enq = <<q>>
        /\ outcome[r] = RequestError([status |-> 401, attempt |-> 2])
        /\ outcome[q] = Response(2)
        /\ store = Tokens(cycles[Len(cycles)].access, "r1")
        /\ defaultAuth = Bearer(cycles[Len(cycles)].access)


----------------------------------------------------------------------------
(* The movie list: MovieContext.tsx and MovieListScreen.tsx *)

\* movieService.ts:54-57: a getMovies(page) call in flight.  The results of
\* page p are written p.
GetMovies(kind, page, id) == [kind |-> kind, page |-> page, id |-> id]

\* The server's answer to getMovies(page): data.next is null on the last page.
HasNext(page) == page < NumPages

\* MovieListScreen.tsx:86-115: the FlatList is rendered when the list is not
\* loading and no error is set.
ListShown == ~isListLoading /\ ~listError

\* MovieContext.tsx:58-62: fetchMovies, called by a closure in which
\* isListLoading has the value `seen`, up to the await of getMovies(1).
FetchMovies(seen) ==
    /\ fetched < MaxFetches
    /\ ~seen
    /\ isListLoading' = TRUE
    /\ listError' = FALSE
    /\ fetches' = fetches \cup {GetMovies("list", 1, fetched + 1)}
    /\ fetched' = fetched + 1
    /\ UNCHANGED <<movies, currentPage, hasNextPage, isFetchingMore>>
    /\ UNCHANGED <<coordinator, credentials, pc, retry, auth, client, error, locals,
                   outcome, sends, reply, cycleLog, session, writes, lastCred>>

\* MovieListScreen.tsx:67-71: the focus effect is memoized with no
\* dependencies and calls the fetchMovies of the screen's first render, in
\* which isListLoading is false.
FocusFetchMovies == FetchMovies(FALSE)

\* MovieListScreen.tsx:95 and MovieContext.tsx:191, 208: the Retry button, or
\* the refresh after a movie was updated or deleted, calls the fetchMovies of
\* the latest render.
RefreshMovies == FetchMovies(isListLoading)

\* MovieContext.tsx:63-66, 69-71: getMovies(1) has answered.
FetchMoviesDone(f) ==
    /\ f \in fetches /\ f.kind = "list"
    /\ movies' = <<f.page>>
    /\ hasNextPage' = HasNext(f.page)
    /\ currentPage' = 2
    /\ isListLoading' = FALSE
    /\ fetches' = fetches \ {f}
    /\ UNCHANGED <<isFetchingMore, listError, fetched>>
    /\ UNCHANGED <<coordinator, credentials, pc, retry, auth, client, error, locals,
                   outcome, sends, reply, cycleLog, session, writes, lastCred>>

\* MovieContext.tsx:66-71: getMovies(1) was rejected.
FetchMoviesFailed(f) ==
    /\ f \in fetches /\ f.kind = "list"
    /\ listError' = TRUE
    /\ isListLoading' = FALSE
    /\ fetches' = fetches \ {f}
    /\ UNCHANGED <<movies, currentPage, hasNextPage, isFetchingMore, fetched>>
    /\ UNCHANGED <<coordinator, credentials, pc, retry, auth, client, error, locals,
                   outcome, sends, reply, cycleLog, session, writes, lastCred>>

\* MovieListScreen.tsx:112 and MovieContext.tsx:80-84: the list reaches its
\* end and calls fetchMoreMovies, up to the await of getMovies(currentPage).
\* The focus effect of the screen's mount has run before the list reports
\* its end for the first time.
FetchMoreMovies ==
    /\ 0 < fetched /\ fetched < MaxFetches
    /\ ListShown
    /\ ~(isFetchingMore \/ ~hasNextPage)
    /\ isFetchingMore' = TRUE
    /\ fetches' = fetches \cup {GetMovies("more", currentPage, fetched + 1)}
    /\ fetched' = fetched + 1
    /\ UNCHANGED <<movies, currentPage, hasNextPage, isListLoading, listError>>
    /\ UNCHANGED <<coordinator, credentials, pc, retry, auth, client, error, locals,
                   outcome, sends, reply, cycleLog, session, writes, lastCred>>

\* MovieContext.tsx:85-88, 91-93: getMovies(page) has answered; the server
\* holds pages 1..NumPages.
FetchMoreDone(f) ==
    /\ f \in fetches /\ f.kind = "more"
    /\ f.page <= NumPages
    /\ movies' = movies \o <<f.page>>
    /\ hasNextPage' = HasNext(f.page)
    /\ currentPage' = currentPage + 1
    /\ isFetchingMore' = FALSE
    /\ fetches' = fetches \ {f}
    /\ UNCHANGED <<isListLoading, listError, fetched>>
    /\ UNCHANGED <<coordinator, credentials, pc, retry, auth, client, error, locals,
                   outcome, sends, reply, cycleLog, session, writes, lastCred>>

\* MovieContext.tsx:88-93: getMovies(page) was rejected.
FetchMoreFailed(f) ==
    /\ f \in fetches /\ f.kind = "more"
    /\ isFetchingMore' = FALSE
    /\ fetches' = fetches \ {f}
    /\ UNCHANGED <<movies, currentPage, hasNextPage, isListLoading, listError, fetched>>
    /\ UNCHANGED <<coordinator, credentials, pc, retry, auth, client, error, locals,
                   outcome, sends, reply, cycleLog, session, writes, lastCred>>

MovieNext ==
    \/ FocusFetchMovies
    \/ RefreshMovies
    \/ \E f \in fetches : FetchMoviesDone(f)
    \/ \E f \in fetches : FetchMoviesFailed(f)
    \/ FetchMoreMovies
    \/ \E f \in fetches : FetchMoreDone(f)
    \/ \E f \in fetches : FetchMoreFailed(f)

MovieSpec == Init /\ [][MovieNext]_vars

\* The list is the concatenation of pages 1..k and currentPage is k + 1.
PagesInOrder ==
    /\ movies = [i \in 1..Len(movies) |-> i]
    /\ currentPage = Len(movies) + 1

\* C30: whenever no list request is in flight the movies list is the
\* concatenation of pages 1..k in order for some k and currentPage is k + 1;
\* fetchMoreMovies issues no request while another fetch-more is in progress
\* or when hasNextPage is false.
C30_PaginationInOrder ==
    /\ [](fetches = {} => PagesInOrder)
    /\ [][\A f \in fetches' \ fetches :
             f.kind = "more" =>
                /\ hasNextPage
                /\ \A g \in fetches : g.kind # "more"]_vars

====
